---- MODULE Spec2Model ----
(***************************************************************************)
(* A model of packages/core/python/semgrep_runner.py: the SemgrepRunner    *)
(* class (check_semgrep_installed, install_semgrep, run and the output     *)
(* parser) driven by callers inside one process, against an environment    *)
(* made of the engine executable, the rules directory and the file system. *)
(***************************************************************************)
EXTENDS Integers, Sequences, FiniteSets, TLC

(***************************************************************************)
(* Bounds of the model.                                                    *)
(***************************************************************************)
MaxTargets == 2
MaxResults == 2

(***************************************************************************)
(* Python values.                                                          *)
(***************************************************************************)
\* Python's None where a string is expected (rule_file, fix).
PyNone == "<None>"

\* A dict with no keys ({} in the source).
EmptyMap == [k \in {} |-> 0]

\* dict.get(key, default)
Get(d, k, default) == IF k \in DOMAIN d THEN d[k] ELSE default

\* All sequences over S of length at most n.
SeqsUpTo(S, n) == UNION {[1..k -> S] : k \in 0..n}

\* The elements of a sequence, as a set.
Range(s) == {s[i] : i \in DOMAIN s}

\* A slip: every match that is neither ERROR nor INFO counted as a warning.
CountSeverityRest(matches, sev) ==
    IF sev = "WARNING"
    THEN Cardinality({i \in DOMAIN matches : matches[i].severity \notin {"ERROR", "INFO"}})
    ELSE Cardinality({i \in DOMAIN matches : matches[i].severity = sev})

\* sum(1 for x in s if x.severity == sev)
CountSeverity(matches, sev) == Cardinality({i \in DOMAIN matches : matches[i].severity = sev})

(***************************************************************************)
(* The file system the runner looks at.  Paths are referred to by name;    *)
(* what Path(p).exists() answers for each name is fixed, except that the   *)
(* rules directory can be removed (and put back) while the runner lives.   *)
(***************************************************************************)
RulesDirPath == "rules"

\* Target arguments a caller may pass.
TargetPaths == {"a.py", "./b.py", "missing.py", "toolong.py"}

\* rule_file arguments a caller may pass (None: use the whole directory).
RuleFileArgs == {PyNone, "r.yaml", "nope.yaml", "toolong.yaml"}

\* str(Path(p)): pathlib drops a leading "./".
PathStr(p) == IF p = "./b.py" THEN "b.py" ELSE p

\* self.rules_dir / rule_file, as str()
ConfigPathOf(rule_file) == RulesDirPath \o "/" \o rule_file

\* Path(p).exists() for a target: TRUE, FALSE, or the OSError that stat()
\* raises for a name it cannot examine (ENAMETOOLONG, EACCES), which
\* pathlib does not swallow.
TargetStat(p) ==
    CASE p \in {"a.py", "./b.py"} -> "present"
      [] p = "toolong.py" -> "fault"
      [] OTHER -> "missing"

(***************************************************************************)
(* Messages of the failure results built by run().                         *)
(***************************************************************************)
NotInstalledMsg == "Semgrep is not installed. Please install it using 'pip install semgrep'"
RuleFileNotFoundMsg(config_path) == "Rule file not found: " \o config_path
TargetNotFoundMsg(target) == "Target path not found: " \o target
TimeoutMsg == "Semgrep execution timed out after 60 seconds"
UnknownErrorMsg == "Unknown error running Semgrep"
\* A slip: the JSONDecodeError handler placed after "except Exception".
ParseFailedAsUnexpected(e) == "Unexpected error running Semgrep: " \o e

ParseFailedMsg(e) == "Failed to parse Semgrep output: " \o e
UnexpectedMsg(e) == "Unexpected error running Semgrep: " \o e

\* A slip: a failure result given part of the statistics.
FailureResultWithTotal(msg) ==
    [matches |-> <<>>, errors |-> <<msg>>, stats |-> [total_matches |-> 0],
     success |-> FALSE]

\* SemgrepResult(matches=[], errors=[msg], stats={}, success=False)
FailureResult(msg) ==
    [matches |-> <<>>, errors |-> <<msg>>, stats |-> EmptyMap, success |-> FALSE]

(***************************************************************************)
(* What the engine can print.  A stdout is either raw text that is not     *)
(* JSON (the empty text included), the JSON text of an object, or the JSON *)
(* text of something that is not an object.                                *)
(***************************************************************************)
Severities == {"ERROR", "WARNING", "INFO"}

FullEntry(rule, path, sev) ==
    [check_id |-> rule, path |-> path,
     start |-> [line |-> 3, col |-> 1], end |-> [line |-> 3, col |-> 9],
     extra |-> [message |-> "msg", severity |-> sev, lines |-> "code",
                fix |-> "fixed", metadata |-> [category |-> "perf"]]]

\* Entries of the engine's "results" list: complete ones, and ones with
\* fields left out.
EntrySamples ==
    { FullEntry("r1", "a.py", "ERROR"),
      FullEntry("r2", "b.py", "INFO"),
      [check_id |-> "r3", path |-> "a.py", extra |-> [message |-> "m"]],
      [path |-> "b.py", start |-> [line |-> 7], extra |-> [severity |-> "HINT"]] }

\* Entries of the engine's "errors" list.
ErrorSamples ==
    { [type |-> "ParseError", message |-> "bad rule"], EmptyMap }

\* Lists of error entries.
ErrorLists ==
    SeqsUpTo(ErrorSamples, 1)
    \cup {<<[type |-> "ParseError", message |-> "bad rule"], [message |-> "no type"]>>}

\* Lists of result entries printed together with errors.
ResultListsWithErrors ==
    SeqsUpTo(EntrySamples, 1)
    \cup {<<FullEntry("r1", "a.py", "ERROR"), [check_id |-> "r3", path |-> "a.py", extra |-> [message |-> "m"]]>>}

\* The documents (JSON objects) the engine may print: findings only,
\* findings with errors, and documents with a key left out.
Docs ==
    {[results |-> r, errors |-> <<>>] : r \in SeqsUpTo(EntrySamples, MaxResults)}
    \cup {[results |-> r, errors |-> e] : r \in ResultListsWithErrors, e \in ErrorLists}
    \cup {EmptyMap}
    \cup {[results |-> r] : r \in SeqsUpTo(EntrySamples, 1)}
    \cup {[errors |-> e] : e \in SeqsUpTo(ErrorSamples, 1)}

RawText(t) == [tag |-> "text", text |-> t, data |-> EmptyMap]
JsonObject(d) == [tag |-> "object", text |-> "", data |-> d]
JsonOther == [tag |-> "other", text |-> "[]", data |-> EmptyMap]

MalformedTexts == {"not json", "{"}

Stdouts ==
    {RawText(t) : t \in MalformedTexts \cup {""}} \cup {JsonObject(d) : d \in Docs}
    \cup {JsonOther}

\* How the engine process can end besides its stdout: stderr and exit code.
Exits ==
    { [stderr |-> "", returncode |-> 0],
      [stderr |-> "semgrep: fatal", returncode |-> 1] }

\* An engine that exits non-zero having printed nothing at all.
SilentExit == [stderr |-> "", returncode |-> 2]

\* bool(result.stdout): the empty text is false
Truthy(stdout) == ~(stdout.tag = "text" /\ stdout.text = "")

\* str(e) of the json.JSONDecodeError raised by json.loads on a raw text
JSONDecodeErrorText(t) ==
    IF t = "{" THEN "Expecting property name enclosed in double quotes: line 1 column 2 (char 1)"
    ELSE "Expecting value: line 1 column 1 (char 0)"

(***************************************************************************)
(* _parse_semgrep_output                                                   *)
(***************************************************************************)
\* A slip: end_line read from "start" (a line copied and half edited).
ParseMatchEndFromStart(r) ==
    LET start == Get(r, "start", EmptyMap)
        end == Get(r, "end", EmptyMap)
        extra == Get(r, "extra", EmptyMap)
    IN [rule_id |-> Get(r, "check_id", ""),
        path |-> Get(r, "path", ""),
        start_line |-> Get(start, "line", 0),
        end_line |-> Get(start, "line", 0),
        start_column |-> Get(start, "col", 0),
        end_column |-> Get(end, "col", 0),
        message |-> Get(extra, "message", ""),
        severity |-> Get(extra, "severity", "WARNING"),
        code_snippet |-> Get(extra, "lines", ""),
        fix |-> Get(extra, "fix", PyNone),
        metadata |-> Get(extra, "metadata", EmptyMap)]

\* A slip: a missing severity defaulted to INFO.
ParseMatchDefaultInfo(r) ==
    LET start == Get(r, "start", EmptyMap)
        end == Get(r, "end", EmptyMap)
        extra == Get(r, "extra", EmptyMap)
    IN [rule_id |-> Get(r, "check_id", ""),
        path |-> Get(r, "path", ""),
        start_line |-> Get(start, "line", 0),
        end_line |-> Get(end, "line", 0),
        start_column |-> Get(start, "col", 0),
        end_column |-> Get(end, "col", 0),
        message |-> Get(extra, "message", ""),
        severity |-> Get(extra, "severity", "INFO"),
        code_snippet |-> Get(extra, "lines", ""),
        fix |-> Get(extra, "fix", PyNone),
        metadata |-> Get(extra, "metadata", EmptyMap)]

\* One entry of data["results"] as a SemgrepMatch; every field is optional.
ParseMatch(r) ==
    LET start == Get(r, "start", EmptyMap)
        end == Get(r, "end", EmptyMap)
        extra == Get(r, "extra", EmptyMap)
    IN [rule_id |-> Get(r, "check_id", ""),
        path |-> Get(r, "path", ""),
        start_line |-> Get(start, "line", 0),
        end_line |-> Get(end, "line", 0),
        start_column |-> Get(start, "col", 0),
        end_column |-> Get(end, "col", 0),
        message |-> Get(extra, "message", ""),
        severity |-> Get(extra, "severity", "WARNING"),
        code_snippet |-> Get(extra, "lines", ""),
        fix |-> Get(extra, "fix", PyNone),
        metadata |-> Get(extra, "metadata", EmptyMap)]

\* A slip: the kind left out of the error string.
FormatErrorMessageOnly(e) == Get(e, "message", "Unknown error")

\* One entry of data["errors"] as "<type>: <message>".
FormatError(e) == Get(e, "type", "Error") \o ": " \o Get(e, "message", "Unknown error")

\* A slip: files_scanned counted per match instead of per distinct path.
ComputeStatsPerMatch(matches) ==
    [total_matches |-> Len(matches),
     error_count |-> CountSeverity(matches, "ERROR"),
     warning_count |-> CountSeverity(matches, "WARNING"),
     info_count |-> CountSeverity(matches, "INFO"),
     files_scanned |-> Len(matches)]

\* The stats dict computed from the matches.
ComputeStats(matches) ==
    [total_matches |-> Len(matches),
     error_count |-> CountSeverity(matches, "ERROR"),
     warning_count |-> CountSeverity(matches, "WARNING"),
     info_count |-> CountSeverity(matches, "INFO"),
     files_scanned |-> IF Len(matches) > 0
                       THEN Cardinality({matches[i].path : i \in DOMAIN matches})
                       ELSE 0]

\* A slip: success=True whatever the errors.
SuccessAlways(errors) == TRUE

\* success=len(errors) == 0
SuccessOf(errors) == Len(errors) = 0

\* A slip: the statistics computed only when there are matches.
ParseStatsOnlyWithMatches(data) ==
    LET results == Get(data, "results", <<>>)
        errs == Get(data, "errors", <<>>)
        matches == [i \in 1..Len(results) |-> ParseMatch(results[i])]
        errors == [i \in 1..Len(errs) |-> FormatError(errs[i])]
    IN [matches |-> matches, errors |-> errors,
        stats |-> IF Len(matches) > 0 THEN ComputeStats(matches) ELSE EmptyMap,
        success |-> SuccessOf(errors)]

ParseSemgrepOutput(data) ==
    LET results == Get(data, "results", <<>>)
        errs == Get(data, "errors", <<>>)
        matches == [i \in 1..Len(results) |-> ParseMatch(results[i])]
        errors == [i \in 1..Len(errs) |-> FormatError(errs[i])]
    IN [matches |-> matches, errors |-> errors,
        stats |-> ComputeStats(matches), success |-> SuccessOf(errors)]

(***************************************************************************)
(* run(), after subprocess.run returned a CompletedProcess: lines 186-198  *)
(* and the JSONDecodeError and Exception handlers.                         *)
(***************************************************************************)
\* A slip: the engine's stderr text dropped.
EmptyOutputAlwaysUnknown(stderr) == UnknownErrorMsg

\* The message used when the engine printed nothing.
EmptyOutputMsg(stderr) == IF stderr # "" THEN stderr ELSE UnknownErrorMsg

\* A slip: a non-zero exit code taken for a failure before stdout is read.
CompletedResultExitCodeFirst(stdout, stderr, returncode) ==
    IF returncode # 0 \/ ~Truthy(stdout)
    THEN FailureResult(EmptyOutputMsg(stderr))
    ELSE CASE stdout.tag = "text" ->
                FailureResult(ParseFailedMsg(JSONDecodeErrorText(stdout.text)))
           [] stdout.tag = "other" ->
                FailureResult(UnexpectedMsg("'list' object has no attribute 'get'"))
           [] OTHER -> ParseSemgrepOutput(stdout.data)

\* A slip: anything on stderr taken for a failure before stdout is read.
CompletedResultStderrFirst(stdout, stderr, returncode) ==
    IF stderr # "" \/ ~Truthy(stdout)
    THEN FailureResult(EmptyOutputMsg(stderr))
    ELSE CASE stdout.tag = "text" ->
                FailureResult(ParseFailedMsg(JSONDecodeErrorText(stdout.text)))
           [] stdout.tag = "other" ->
                FailureResult(UnexpectedMsg("'list' object has no attribute 'get'"))
           [] OTHER -> ParseSemgrepOutput(stdout.data)

CompletedResult(stdout, stderr, returncode) ==
    IF Truthy(stdout)
    THEN CASE stdout.tag = "text" ->
                FailureResult(ParseFailedMsg(JSONDecodeErrorText(stdout.text)))
           [] stdout.tag = "other" ->
                FailureResult(UnexpectedMsg("'list' object has no attribute 'get'"))
           [] OTHER -> ParseSemgrepOutput(stdout.data)
    ELSE FailureResult(EmptyOutputMsg(stderr))

\* A slip: the TimeoutExpired handler built like the empty-output branch.
TimeoutAsEmptyOutput == FailureResult(UnknownErrorMsg)

\* run(), when subprocess.run raised TimeoutExpired
TimeoutResult == FailureResult(TimeoutMsg)

(***************************************************************************)
(* format_results_as_json: the result as the JSON text's object, each      *)
(* object being its members (key and value) in the order json.dumps writes *)
(* them, which is the order the dict was built in.                         *)
(***************************************************************************)
\* The fields of the SemgrepMatch dataclass, in declaration order.
MatchFields ==
    <<"rule_id", "path", "start_line", "end_line", "start_column", "end_column",
      "message", "severity", "code_snippet", "fix", "metadata">>

\* The keys of the stats dict, in the order _parse_semgrep_output sets them.
StatsFields ==
    <<"total_matches", "error_count", "warning_count", "info_count", "files_scanned">>

Member(k, v) == [key |-> k, value |-> v]

\* The members of a dict, `order` being the insertion order of its keys.
DictItems(d, order) ==
    LET present == SelectSeq(order, LAMBDA k : k \in DOMAIN d)
    IN [i \in 1..Len(present) |-> Member(present[i], d[present[i]])]

\* A slip: fields that are None left out of the object.
AsDictSkippingNone(match) ==
    LET kept == SelectSeq(MatchFields, LAMBDA k : ~(k = "fix" /\ match.fix = PyNone))
    IN [i \in 1..Len(kept) |-> Member(kept[i], match[kept[i]])]

\* dataclasses.asdict(match): every field, None included (null in JSON).
AsDict(match) ==
    [i \in 1..Len(MatchFields) |-> Member(MatchFields[i], match[MatchFields[i]])]

FormatResultsAsJson(res) ==
    << Member("success", res.success),
       Member("matches", [i \in 1..Len(res.matches) |-> AsDict(res.matches[i])]),
       Member("errors", res.errors),
       Member("stats", DictItems(res.stats, StatsFields)) >>

(***************************************************************************)
(* run(), lines 142-175: the config path, the command and the targets.     *)
(***************************************************************************)
\* if rule_file: (None and "" are false)
RuleFileGiven(rule_file) == rule_file \notin {PyNone, ""}

\* config_path.exists() for a named rule file
RuleFileStat(rule_file, dirExists) ==
    CASE ~dirExists -> "missing"
      [] rule_file = "r.yaml" -> "present"
      [] rule_file = "toolong.yaml" -> "fault"
      [] OTHER -> "missing"

\* str(config_path)
ConfigArg(rule_file) ==
    IF RuleFileGiven(rule_file) THEN ConfigPathOf(rule_file) ELSE RulesDirPath

\* A slip: the exists() check of the rule file left out.
ConfigNeverChecked(rule_file) == FALSE

\* Whether run() checks the config path at all: only a named rule file is.
ConfigChecked(rule_file) == RuleFileGiven(rule_file)

\* A slip: the exists() check of the targets left out.
NoBadTarget(targets) == 0

\* The index of the first target the loop does not find present, 0 if none.
FirstBadTarget(targets) ==
    LET bad == {i \in DOMAIN targets : TargetStat(targets[i]) # "present"}
    IN IF bad = {} THEN 0 ELSE CHOOSE i \in bad : \A j \in bad : i <= j

BaseCmd(rule_file) ==
    <<"semgrep", "--config", ConfigArg(rule_file), "--json", "--no-git-ignore", "--metrics=off">>

\* cmd once every target was appended
EngineCmd(targets, rule_file) ==
    BaseCmd(rule_file) \o [i \in 1..Len(targets) |-> PathStr(targets[i])]

\* A slip: the targets checked before the rule file.
ValidateTargetsFirst(targets, rule_file, dirExists) ==
    LET cstat == IF ConfigChecked(rule_file)
                 THEN RuleFileStat(rule_file, dirExists) ELSE "present"
        bad == FirstBadTarget(targets)
    IN CASE bad # 0 /\ TargetStat(targets[bad]) = "fault" ->
              [kind |-> "raise", msg |-> "OSError"]
         [] bad # 0 -> [kind |-> "fail", msg |-> TargetNotFoundMsg(targets[bad])]
         [] cstat = "fault" -> [kind |-> "raise", msg |-> "OSError"]
         [] cstat = "missing" ->
              [kind |-> "fail", msg |-> RuleFileNotFoundMsg(ConfigPathOf(rule_file))]
         [] OTHER -> [kind |-> "spawn", msg |-> ""]

\* The outcome of lines 142-175: "spawn" (go on to subprocess.run), "fail"
\* (return a failure result) or "raise" (an exception leaves run()).
Validate(targets, rule_file, dirExists) ==
    LET cstat == IF ConfigChecked(rule_file)
                 THEN RuleFileStat(rule_file, dirExists) ELSE "present"
        bad == FirstBadTarget(targets)
    IN CASE cstat = "fault" -> [kind |-> "raise", msg |-> "OSError"]
         [] cstat = "missing" ->
              [kind |-> "fail", msg |-> RuleFileNotFoundMsg(ConfigPathOf(rule_file))]
         [] bad = 0 -> [kind |-> "spawn", msg |-> ""]
         [] TargetStat(targets[bad]) = "fault" -> [kind |-> "raise", msg |-> "OSError"]
         [] OTHER -> [kind |-> "fail", msg |-> TargetNotFoundMsg(targets[bad])]

(***************************************************************************)
(* The engine locator (_find_semgrep_path): a lookup that tries candidate  *)
(* locations in a fixed order and stops at the first that holds an         *)
(* executable engine.                                                      *)
(***************************************************************************)
\* The strategies, in the order they are tried.
Strategies == <<"system_path", "python_bin", "site_packages", "user_local">>

\* The strategies after the system PATH.
LaterStrategies == {"python_bin", "site_packages", "user_local"}

\* The path a strategy returns when its location holds the engine.
CandidatePath(strategy) ==
    CASE strategy = "system_path" -> "/usr/local/bin/semgrep"
      [] strategy = "python_bin" -> "/usr/bin/python3/bin/semgrep"
      [] strategy = "site_packages" -> "/path/to/site-packages/Scripts/semgrep"
      [] OTHER -> "/home/user/.local/bin/semgrep"

\* Whether a strategy's location holds an engine that exists and is
\* executable.  `e` is the engine as the system PATH has it: one the OS
\* refuses to execute is not a match.  `o` is the set of later strategies
\* whose location holds the engine.
Holds(strategy, e, o) ==
    IF strategy = "system_path" THEN e \in {"broken", "slow", "ok"} ELSE strategy \in o

\* A slip: the interpreter-adjacent bin tried before the system PATH.
FindSemgrepPathPythonFirst(e, o) ==
    LET order == <<"python_bin", "system_path", "site_packages", "user_local">>
        hits == {i \in DOMAIN order : Holds(order[i], e, o)}
        hit == IF hits = {} THEN 0 ELSE CHOOSE i \in hits : \A j \in hits : i <= j
    IN [path |-> IF hit = 0 THEN PyNone ELSE CandidatePath(order[hit]),
        consulted |-> SubSeq(order, 1, IF hit = 0 THEN Len(order) ELSE hit)]

\* A slip: the user-local candidate returned as a last resort, unchecked.
FindSemgrepPathLastResort(e, o) ==
    LET hits == {i \in DOMAIN Strategies : Holds(Strategies[i], e, o)}
        hit == IF hits = {} THEN Len(Strategies)
               ELSE CHOOSE i \in hits : \A j \in hits : i <= j
    IN [path |-> CandidatePath(Strategies[hit]),
        consulted |-> SubSeq(Strategies, 1, hit)]

\* locate(): the path of the first strategy that finds the engine and the
\* strategies consulted on the way; None when no strategy finds it.
FindSemgrepPath(e, o) ==
    LET hits == {i \in DOMAIN Strategies : Holds(Strategies[i], e, o)}
        hit == IF hits = {} THEN 0 ELSE CHOOSE i \in hits : \A j \in hits : i <= j
    IN [path |-> IF hit = 0 THEN PyNone ELSE CandidatePath(Strategies[hit]),
        consulted |-> SubSeq(Strategies, 1, IF hit = 0 THEN Len(Strategies) ELSE hit)]

(***************************************************************************)
(* The state: the environment, the runner object and each caller's         *)
(* position in its call.                                                   *)
(***************************************************************************)
VARIABLES
    engine,          \* the engine executable as the process would find it now
    rulesDirExists,  \* whether the rules directory exists now
    runner,          \* the SemgrepRunner object: none, ready, or ValueError
    pc,              \* per caller: idle, probing, running, installing, done, raised
    op,              \* per caller: the method being called: none, run, install
    args,            \* per caller: [targets, rule_file] of the run() call
    child,           \* per caller: the subprocess subprocess.run is waiting for
    log,             \* per caller: what the call did so far, in order
    completed,       \* per caller: how the engine (or pip) subprocess ended
    result,          \* per caller: the SemgrepResult run() returned
    installRet,      \* per caller: the bool install_semgrep() returned
    fault,           \* per caller: the exception that left the call, "" if none
    printed,         \* per caller: format_results_as_json of the result, once asked for
    others,          \* the strategies after the system PATH whose location holds the engine
    located,         \* what the last lookup of the engine returned
    cli              \* the command-line process: its arguments, where main() is, its exit code

envVars == <<engine, rulesDirExists>>
callVars == <<pc, op, args, child, log, completed, result, installRet, fault, printed>>
locVars == <<others, located>>
vars == <<engine, rulesDirExists, runner, pc, op, args, child, log, completed, result,
          installRet, fault, printed, others, located, cli>>

Callers == {"c1", "c2"}

\* The caller of the sequential specification.
MainCaller == "c1"

\* absent: no "semgrep" on PATH (FileNotFoundError); denied: found but the OS
\* refuses to execute it (PermissionError); broken: runs, --version exits
\* non-zero; slow: runs, --version exceeds its timeout; ok: --version exits 0.
EngineStates == {"absent", "denied", "broken", "slow", "ok"}

TargetLists == SeqsUpTo(TargetPaths, MaxTargets)

NoChild == [kind |-> "none", exe |-> ""]
NoArgs == [targets |-> <<>>, rule_file |-> PyNone]
NoCompleted == [kind |-> "none", stdout |-> RawText(""), stderr |-> "", returncode |-> 0]
NoLocated == [kind |-> "none", path |-> PyNone, consulted |-> <<>>]
NoResult == [matches |-> <<>>, errors |-> <<>>, stats |-> EmptyMap, success |-> FALSE]

\* No command-line process: main() has not been entered.
NoCli == [stage |-> "off", install |-> FALSE, json |-> FALSE, targets |-> <<>>,
          rule_file |-> PyNone, checked |-> "none", installed |-> "none", code |-> -1]

\* Entries of a call's log: a subprocess.run call with its argument list, the
\* answer of check_semgrep_installed(), a time.sleep call.
Spawned(argv) == [ev |-> "spawn", val |-> argv]
Checked(answer) == [ev |-> "check", val |-> <<answer>>]
Slept == [ev |-> "sleep", val |-> <<>>]

VersionCmd == <<"semgrep", "--version">>
PipCmd == <<"python", "-m", "pip", "install", "semgrep">>

\* The argument lists of the subprocesses a log records, in order.
Spawns(l) ==
    LET sp == SelectSeq(l, LAMBDA e : e.ev = "spawn")
    IN [i \in 1..Len(sp) |-> sp[i].val]

\* The answers of the installed checks a log records, in order.
Checks(l) ==
    LET ck == SelectSeq(l, LAMBDA e : e.ev = "check")
    IN [i \in 1..Len(ck) |-> ck[i].val[1]]

\* The number of time.sleep calls a log records.
Sleeps(l) == Len(SelectSeq(l, LAMBDA e : e.ev = "sleep"))

\* What the engine subprocess can do once started.
EngineOutcomes ==
    {[kind |-> "timeout", stdout |-> RawText(""), stderr |-> "", returncode |-> 0]}
    \cup {[kind |-> "completed", stdout |-> o, stderr |-> x.stderr,
            returncode |-> x.returncode] : o \in Stdouts, x \in Exits}
    \cup {[kind |-> "completed", stdout |-> RawText(""), stderr |-> SilentExit.stderr,
            returncode |-> SilentExit.returncode]}

\* A few outputs that the engine prints with either exit.
FewStdouts ==
    { JsonObject([results |-> <<>>, errors |-> <<>>]),
      JsonObject([results |-> <<FullEntry("r1", "a.py", "ERROR")>>,
                  errors |-> <<[type |-> "ParseError", message |-> "bad rule"]>>]),
      JsonObject([results |-> <<FullEntry("r2", "b.py", "INFO")>>, errors |-> <<>>]),
      RawText("not json") }

\* A few of them, for the specification with concurrent callers.
FewEngineOutcomes ==
    {x \in EngineOutcomes :
        \/ x.kind = "timeout"
        \/ x.returncode = 0 /\ x.stdout = RawText("")
        \/ x.kind = "completed" /\ x.stdout \in FewStdouts}

\* How pip can end: exit code 0, exit code 1, or killed at its timeout.
PipOutcomes ==
    { [kind |-> "completed", stdout |-> RawText(""), stderr |-> "", returncode |-> 0],
      [kind |-> "completed", stdout |-> RawText(""), stderr |-> "", returncode |-> 1],
      [kind |-> "timeout", stdout |-> RawText(""), stderr |-> "", returncode |-> 0] }

Init ==
    /\ engine \in EngineStates
    /\ rulesDirExists \in BOOLEAN
    /\ runner = "none"
    /\ pc = [c \in Callers |-> "idle"]
    /\ op = [c \in Callers |-> "none"]
    /\ args = [c \in Callers |-> NoArgs]
    /\ child = [c \in Callers |-> NoChild]
    /\ log = [c \in Callers |-> <<>>]
    /\ completed = [c \in Callers |-> NoCompleted]
    /\ result = [c \in Callers |-> NoResult]
    /\ installRet = [c \in Callers |-> FALSE]
    /\ fault = [c \in Callers |-> ""]
    /\ printed = [c \in Callers |-> <<>>]
    /\ others = {}
    /\ located = NoLocated
    /\ cli = NoCli

(***************************************************************************)
(* __init__: the rules directory must exist when the runner is built.      *)
(***************************************************************************)
ConstructAnswer(dirExists) == IF dirExists THEN "ready" ELSE "ValueError"

Construct ==
    /\ runner # "ready"
    /\ runner' = ConstructAnswer(rulesDirExists)
    /\ UNCHANGED <<envVars, callVars, locVars, cli>>

(***************************************************************************)
(* check_semgrep_installed: subprocess.run(["semgrep", "--version"]).      *)
(***************************************************************************)
\* What the call does at once, from the engine as it is when spawned:
\* FileNotFoundError is caught (False); PermissionError is an OSError that
\* the except clause does not name; otherwise a child runs.
ProbeSpawn(e) ==
    CASE e = "absent" -> "False"
      [] e = "denied" -> "raise"
      [] OTHER -> "wait"

\* A slip: the answer of an earlier check kept and given again.
ProbeAnswerCached(exe) ==
    IF \E d \in Callers : Checks(log[d]) # <<>>
    THEN LET d == CHOOSE d \in Callers : Checks(log[d]) # <<>>
         IN Checks(log[d])[1] = "True"
    ELSE exe = "ok"

\* The answer once the child ended: returncode == 0; TimeoutExpired is False.
ProbeAnswer(exe) == exe = "ok"

\* str() of a bool
BoolStr(b) == IF b THEN "True" ELSE "False"

(***************************************************************************)
(* run()                                                                   *)
(***************************************************************************)
\* A slip: the matches list kept on the runner and shared between calls, so
\* that a result starts with the matches of the result another call left.
FinishAccumulating(c, res) ==
    LET held == CHOOSE d \in Callers : d # c
    IN /\ pc' = [pc EXCEPT ![c] = "done"]
       /\ result' = [result EXCEPT ![c] =
                        [res EXCEPT !.matches = result[held].matches \o res.matches]]
       /\ UNCHANGED fault

\* The caller leaves run() with a result.
Finish(c, res) ==
    /\ pc' = [pc EXCEPT ![c] = "done"]
    /\ result' = [result EXCEPT ![c] = res]
    /\ UNCHANGED fault

\* An exception leaves the call.
Raise(c, exc) ==
    /\ pc' = [pc EXCEPT ![c] = "raised"]
    /\ fault' = [fault EXCEPT ![c] = exc]
    /\ UNCHANGED result

\* What subprocess.run(cmd) of the engine does at once: the exception it
\* raises when no child can be started (caught by "except Exception"), ""
\* when a child runs.
EngineSpawnError(e) ==
    CASE e = "absent" -> "[Errno 2] No such file or directory: 'semgrep'"
      [] e = "denied" -> "[Errno 13] Permission denied: 'semgrep'"
      [] OTHER -> ""

\* A slip: the installer run whatever the check answered, the call then
\* leaving by the not-installed exit.
AfterCheckInstallingAnyway(c, installed, sofar) ==
    /\ Finish(c, FailureResult(NotInstalledMsg))
    /\ child' = [child EXCEPT ![c] = NoChild]
    /\ log' = [log EXCEPT ![c] = Append(sofar, Spawned(PipCmd))]

\* Lines 134-184 once check_semgrep_installed() has answered `installed`:
\* the not-installed exit, the config and target checks, and the spawn of
\* the engine.  `sofar` is the log up to the answer.
AfterCheck(c, installed, sofar) ==
    LET v == Validate(args'[c].targets, args'[c].rule_file, rulesDirExists)
        cmd == EngineCmd(args'[c].targets, args'[c].rule_file)
        err == EngineSpawnError(engine)
    IN IF ~installed
       THEN /\ Finish(c, FailureResult(NotInstalledMsg))
            /\ child' = [child EXCEPT ![c] = NoChild]
            /\ log' = [log EXCEPT ![c] = sofar]
       ELSE CASE v.kind = "raise" ->
                   /\ Raise(c, v.msg)
                   /\ child' = [child EXCEPT ![c] = NoChild]
                   /\ log' = [log EXCEPT ![c] = sofar]
              [] v.kind = "fail" ->
                   /\ Finish(c, FailureResult(v.msg))
                   /\ child' = [child EXCEPT ![c] = NoChild]
                   /\ log' = [log EXCEPT ![c] = sofar]
              [] OTHER ->
                   /\ log' = [log EXCEPT ![c] = Append(sofar, Spawned(cmd))]
                   /\ IF err # ""
                      THEN /\ Finish(c, FailureResult(UnexpectedMsg(err)))
                           /\ child' = [child EXCEPT ![c] = NoChild]
                      ELSE /\ pc' = [pc EXCEPT ![c] = "running"]
                           /\ child' = [child EXCEPT ![c] = [kind |-> "engine", exe |-> engine]]
                           /\ UNCHANGED <<result, fault>>

\* run(targets, rule_file) is called: check_semgrep_installed() spawns the
\* version probe, which may fail at once.
RunCall(c, targets, rule_file) ==
    /\ runner = "ready"
    /\ pc[c] = "idle"
    /\ op' = [op EXCEPT ![c] = "run"]
    /\ args' = [args EXCEPT ![c] = [targets |-> targets, rule_file |-> rule_file]]
    /\ LET now == ProbeSpawn(engine)
       IN CASE now = "wait" ->
                 /\ pc' = [pc EXCEPT ![c] = "probing"]
                 /\ child' = [child EXCEPT ![c] = [kind |-> "probe", exe |-> engine]]
                 /\ log' = [log EXCEPT ![c] = <<Spawned(VersionCmd)>>]
                 /\ UNCHANGED <<result, fault>>
            [] now = "raise" ->
                 /\ Raise(c, "PermissionError")
                 /\ log' = [log EXCEPT ![c] = <<Spawned(VersionCmd), Checked("raise")>>]
                 /\ UNCHANGED child
            [] OTHER ->
                 AfterCheck(c, FALSE, <<Spawned(VersionCmd), Checked("False")>>)
    /\ UNCHANGED <<envVars, runner, completed, installRet, printed, locVars, cli>>

\* The version probe ends (or is killed at its timeout) and run() goes on.
ProbeReturn(c) ==
    /\ pc[c] = "probing"
    /\ UNCHANGED <<envVars, runner, op, args, completed, installRet, printed, locVars, cli>>
    /\ LET answer == ProbeAnswer(child[c].exe)
       IN AfterCheck(c, answer, Append(log[c], Checked(BoolStr(answer))))

\* A slip: the wait given up at the timeout without killing the child
\* (Popen.wait(timeout) in place of subprocess.run(timeout)).
EngineReturnLeavingChild(c, outcome) ==
    /\ pc[c] = "running"
    /\ completed' = [completed EXCEPT ![c] = outcome]
    /\ child' = IF outcome.kind = "timeout" THEN child ELSE [child EXCEPT ![c] = NoChild]
    /\ Finish(c, IF outcome.kind = "timeout" THEN TimeoutResult
                 ELSE CompletedResult(outcome.stdout, outcome.stderr, outcome.returncode))
    /\ UNCHANGED <<envVars, runner, op, args, log, installRet, printed, locVars, cli>>

\* A slip: the engine run again after a timeout instead of returning.
EngineReturnRetrying(c, outcome) ==
    /\ pc[c] = "running"
    /\ completed' = [completed EXCEPT ![c] = outcome]
    /\ IF outcome.kind = "timeout"
       THEN /\ log' = [log EXCEPT ![c] = Append(@, Spawned(EngineCmd(args[c].targets,
                                                                    args[c].rule_file)))]
            /\ UNCHANGED <<pc, result, fault, child>>
       ELSE /\ child' = [child EXCEPT ![c] = NoChild]
            /\ Finish(c, CompletedResult(outcome.stdout, outcome.stderr, outcome.returncode))
            /\ UNCHANGED log
    /\ UNCHANGED <<envVars, runner, op, args, installRet, printed, locVars, cli>>

\* subprocess.run returns from the engine: a CompletedProcess, or
\* TimeoutExpired after it killed the child.
EngineReturn(c, outcome) ==
    /\ pc[c] = "running"
    /\ completed' = [completed EXCEPT ![c] = outcome]
    /\ child' = [child EXCEPT ![c] = NoChild]
    /\ Finish(c, IF outcome.kind = "timeout" THEN TimeoutResult
                 ELSE CompletedResult(outcome.stdout, outcome.stderr, outcome.returncode))
    /\ UNCHANGED <<envVars, runner, op, args, log, installRet, printed, locVars, cli>>

(***************************************************************************)
(* install_semgrep()                                                       *)
(***************************************************************************)
\* install_semgrep() is called: pip is spawned.
InstallCall(c) ==
    /\ runner = "ready"
    /\ pc[c] = "idle"
    /\ op' = [op EXCEPT ![c] = "install"]
    /\ pc' = [pc EXCEPT ![c] = "installing"]
    /\ child' = [child EXCEPT ![c] = [kind |-> "pip", exe |-> "python"]]
    /\ log' = [log EXCEPT ![c] = <<Spawned(PipCmd)>>]
    /\ UNCHANGED <<envVars, runner, args, completed, result, installRet, fault, printed, locVars, cli>>

\* A slip: any exit of pip taken for success, its exit code not compared.
InstallAnswerAnyExit(outcome) == outcome.kind = "completed"

\* return result.returncode == 0, or False on SubprocessError
InstallAnswer(outcome) == outcome.kind = "completed" /\ outcome.returncode = 0

\* pip ends (or is killed at its timeout) and install_semgrep() returns.
\* After exit code 0 the engine may or may not be resolvable yet.
PipReturn(c, outcome, resolvable) ==
    /\ pc[c] = "installing"
    /\ child' = [child EXCEPT ![c] = NoChild]
    /\ pc' = [pc EXCEPT ![c] = "done"]
    /\ completed' = [completed EXCEPT ![c] = outcome]
    /\ installRet' = [installRet EXCEPT ![c] = InstallAnswer(outcome)]
    /\ engine' = IF outcome.kind = "completed" /\ outcome.returncode = 0 /\ resolvable
                 THEN "ok" ELSE engine
    /\ UNCHANGED <<rulesDirExists, runner, op, args, log, result, fault, printed, locVars, cli>>

(***************************************************************************)
(* The caller, and the environment.                                        *)
(***************************************************************************)
\* The caller asks for the result of its run() call as JSON.
FormatCall(c) ==
    /\ op[c] = "run"
    /\ pc[c] = "done"
    /\ printed[c] = <<>>
    /\ printed' = [printed EXCEPT ![c] = FormatResultsAsJson(result[c])]
    /\ UNCHANGED <<envVars, runner, pc, op, args, child, log, completed, result,
                   installRet, fault, locVars, cli>>

\* The caller takes the result (or the exception) and is free to call again.
Return(c) ==
    /\ pc[c] \in {"done", "raised"}
    /\ pc' = [pc EXCEPT ![c] = "idle"]
    /\ op' = [op EXCEPT ![c] = "none"]
    /\ args' = [args EXCEPT ![c] = NoArgs]
    /\ log' = [log EXCEPT ![c] = <<>>]
    /\ completed' = [completed EXCEPT ![c] = NoCompleted]
    /\ result' = [result EXCEPT ![c] = NoResult]
    /\ installRet' = [installRet EXCEPT ![c] = FALSE]
    /\ fault' = [fault EXCEPT ![c] = ""]
    /\ printed' = [printed EXCEPT ![c] = <<>>]
    /\ UNCHANGED <<envVars, runner, child, locVars, cli>>

\* Somebody else installs, removes or breaks the engine.
EngineChange(e) ==
    /\ e # engine
    /\ engine' = e
    /\ UNCHANGED <<rulesDirExists, runner, callVars, locVars, cli>>

\* The rules directory is removed, or put back.
RulesDirChange ==
    /\ rulesDirExists' = ~rulesDirExists
    /\ UNCHANGED <<engine, runner, callVars, locVars, cli>>

(***************************************************************************)
(* The locator as an operation of its own, and the rest of its             *)
(* environment.                                                            *)
(***************************************************************************)
\* The state a process is in when the engine may sit in any location.
InitLocate ==
    /\ engine \in EngineStates
    /\ rulesDirExists \in BOOLEAN
    /\ runner = "none"
    /\ pc = [c \in Callers |-> "idle"]
    /\ op = [c \in Callers |-> "none"]
    /\ args = [c \in Callers |-> NoArgs]
    /\ child = [c \in Callers |-> NoChild]
    /\ log = [c \in Callers |-> <<>>]
    /\ completed = [c \in Callers |-> NoCompleted]
    /\ result = [c \in Callers |-> NoResult]
    /\ installRet = [c \in Callers |-> FALSE]
    /\ fault = [c \in Callers |-> ""]
    /\ printed = [c \in Callers |-> <<>>]
    /\ others \in SUBSET LaterStrategies
    /\ located = NoLocated
    /\ cli = NoCli

\* A lookup of the engine against the environment as it is now.
Locate ==
    /\ located = NoLocated
    /\ located' = [kind |-> "returned",
                   path |-> FindSemgrepPath(engine, others).path,
                   consulted |-> FindSemgrepPath(engine, others).consulted]
    /\ UNCHANGED <<envVars, runner, callVars, others, cli>>

\* The caller drops the answer; the next lookup starts afresh.
Forget ==
    /\ located # NoLocated
    /\ located' = NoLocated
    /\ UNCHANGED <<envVars, runner, callVars, others, cli>>

\* An engine appears in, or disappears from, a location off the system PATH.
OthersChange(strategy) ==
    /\ others' = IF strategy \in others THEN others \ {strategy}
                 ELSE others \cup {strategy}
    /\ UNCHANGED <<envVars, runner, callVars, located, cli>>

NextLocate ==
    \/ Locate
    \/ Forget
    \/ \E e \in EngineStates : EngineChange(e)
    \/ \E st \in LaterStrategies : OthersChange(st)

SpecLocate == InitLocate /\ [][NextLocate]_vars

\* One caller at a time, every input.
Next ==
    \/ Construct
    \/ \E t \in TargetLists, r \in RuleFileArgs : RunCall(MainCaller, t, r)
    \/ ProbeReturn(MainCaller)
    \/ \E o \in EngineOutcomes : EngineReturn(MainCaller, o)
    \/ InstallCall(MainCaller)
    \/ \E o \in PipOutcomes, b \in BOOLEAN : PipReturn(MainCaller, o, b)
    \/ FormatCall(MainCaller)
    \/ Return(MainCaller)
    \/ \E e \in EngineStates : EngineChange(e)
    \/ RulesDirChange

Spec == Init /\ [][Next]_vars

\* Callers interleaved in one process, a few inputs.
NextConc ==
    \/ Construct
    \/ \E c \in Callers : RunCall(c, <<"a.py">>, PyNone)
    \/ \E c \in Callers : ProbeReturn(c)
    \/ \E c \in Callers, o \in FewEngineOutcomes : EngineReturn(c, o)
    \/ \E c \in Callers : InstallCall(c)
    \/ \E c \in Callers, o \in PipOutcomes, b \in BOOLEAN : PipReturn(c, o, b)
    \/ \E c \in Callers : Return(c)
    \/ \E e \in EngineStates : EngineChange(e)
    \/ RulesDirChange

SpecConc == Init /\ [][NextConc]_vars

\* Every child is run with timeout= (5 s for the version probe, 60 s for
\* pip, 60 s for the engine), so each wait of a caller comes to an end.
Fairness ==
    \A c \in Callers :
        /\ WF_vars(ProbeReturn(c))
        /\ WF_vars(\E o \in FewEngineOutcomes : EngineReturn(c, o))
        /\ WF_vars(\E o \in PipOutcomes, b \in BOOLEAN : PipReturn(c, o, b))

\* The concurrent callers, with every wait on a child ending.
SpecFair == Init /\ [][NextConc]_vars /\ Fairness

(***************************************************************************)
(* main(): the command-line entry point.  One process parses its           *)
(* arguments, constructs a runner, checks and installs the engine when     *)
(* --install is given, runs the analysis, prints the result and exits.     *)
(* Its calls on the runner are the calls of MainCaller.                    *)
(***************************************************************************)
\* The argument lists the process is started with.
CliTargets == {<<"a.py">>, <<"missing.py">>}

\* A slip: the check and the installation done without --install as well.
AfterConstructAlwaysChecking(r, install) ==
    IF r = "ValueError" THEN "exited" ELSE "check"

\* Where main() goes once the constructor ended: sys.exit(1) on ValueError,
\* the check when --install is given, the analysis otherwise.
AfterConstruct(r, install) ==
    CASE r = "ValueError" -> "exited"
      [] install -> "check"
      [] OTHER -> "run"

\* Where main() goes after check_semgrep_installed(): an exception ends the
\* process, True skips the installation.
AfterInstalledCheck(answer) ==
    CASE answer = "raise" -> "exited"
      [] answer = "True" -> "run"
      [] OTHER -> "install"

\* Where main() goes after install_semgrep(): sys.exit(1) on False.
AfterInstall(ok) == IF ok THEN "run" ELSE "exited"

\* A slip: the exit code taken from success alone.
ExitCodeOfSuccess(res) == IF res.success THEN 0 ELSE 1

\* sys.exit(0 if result.success and len(result.matches) == 0 else 1)
ExitCodeOf(res) == IF res.success /\ Len(res.matches) = 0 THEN 0 ELSE 1

\* The human-readable output: where each print goes and what it prints.
Out(to, text) == [to |-> to, text |-> text]

HumanLines(res) ==
    LET keys == IF DOMAIN res.stats = {} THEN <<>>
                ELSE <<"total_matches", "error_count", "warning_count", "info_count",
                       "files_scanned">>
    IN (IF res.success
        THEN <<Out("stdout", <<"Analysis completed successfully">>)>>
        ELSE <<Out("stdout", <<"Analysis completed with errors">>)>>
             \o [i \in 1..Len(res.errors) |-> Out("stderr", <<"Error", res.errors[i]>>)])
       \o <<Out("stdout", <<"Statistics">>)>>
       \o [i \in 1..Len(keys) |-> Out("stdout", <<keys[i], res.stats[keys[i]]>>)]
       \o (IF res.matches = <<>> THEN <<>>
           ELSE <<Out("stdout", <<"Findings">>)>>
                \o [i \in 1..Len(res.matches) |->
                        Out("stdout", <<res.matches[i].severity, res.matches[i].rule_id,
                                        res.matches[i].path, res.matches[i].start_line,
                                        res.matches[i].end_line, res.matches[i].message,
                                        res.matches[i].code_snippet>>)])

\* The process starts and argparse reads its arguments.
MainParse(install, json, targets, rule_file) ==
    /\ cli.stage = "off"
    /\ runner = "none"
    /\ cli' = [NoCli EXCEPT !.stage = "construct", !.install = install, !.json = json,
                            !.targets = targets, !.rule_file = rule_file]
    /\ UNCHANGED <<envVars, runner, callVars, locVars>>

\* runner = SemgrepRunner(rules_dir=args.rules_dir)
MainConstruct ==
    /\ cli.stage = "construct"
    /\ runner = "none"
    /\ Construct

\* The constructor ended: main() exits with 1 on ValueError or goes on.
MainConstructed ==
    /\ cli.stage = "construct"
    /\ runner # "none"
    /\ LET to == AfterConstruct(runner, cli.install)
       IN cli' = [cli EXCEPT !.stage = to, !.code = IF to = "exited" THEN 1 ELSE @]
    /\ UNCHANGED <<envVars, runner, callVars, locVars>>

\* check_semgrep_installed() called on its own: the version probe is
\* spawned, which may fail at once.
CheckCall(c) ==
    /\ runner = "ready"
    /\ pc[c] = "idle"
    /\ op' = [op EXCEPT ![c] = "check"]
    /\ LET now == ProbeSpawn(engine)
       IN CASE now = "wait" ->
                 /\ pc' = [pc EXCEPT ![c] = "probing"]
                 /\ child' = [child EXCEPT ![c] = [kind |-> "probe", exe |-> engine]]
                 /\ log' = [log EXCEPT ![c] = <<Spawned(VersionCmd)>>]
                 /\ UNCHANGED fault
            [] now = "raise" ->
                 /\ pc' = [pc EXCEPT ![c] = "raised"]
                 /\ fault' = [fault EXCEPT ![c] = "PermissionError"]
                 /\ log' = [log EXCEPT ![c] = <<Spawned(VersionCmd), Checked("raise")>>]
                 /\ UNCHANGED child
            [] OTHER ->
                 /\ pc' = [pc EXCEPT ![c] = "done"]
                 /\ log' = [log EXCEPT ![c] = <<Spawned(VersionCmd), Checked("False")>>]
                 /\ UNCHANGED <<child, fault>>
    /\ UNCHANGED <<envVars, runner, args, completed, result, installRet, printed, locVars, cli>>

\* The version probe of such a call ends and the call returns.
CheckReturn(c) ==
    /\ op[c] = "check"
    /\ pc[c] = "probing"
    /\ pc' = [pc EXCEPT ![c] = "done"]
    /\ child' = [child EXCEPT ![c] = NoChild]
    /\ log' = [log EXCEPT ![c] = Append(@, Checked(BoolStr(ProbeAnswer(child[c].exe))))]
    /\ UNCHANGED <<envVars, runner, op, args, completed, result, installRet, fault, printed,
                   locVars, cli>>

\* if args.install: if not runner.check_semgrep_installed():
MainCheck ==
    /\ cli.stage = "check"
    /\ CheckCall(MainCaller)

\* The check ended: main() installs, goes on to the analysis, or dies of
\* the exception (exit code 1).
MainChecked ==
    /\ cli.stage = "check"
    /\ op[MainCaller] = "check"
    /\ pc[MainCaller] \in {"done", "raised"}
    /\ LET answer == Checks(log[MainCaller])[1]
           to == AfterInstalledCheck(answer)
       IN cli' = [cli EXCEPT !.stage = to, !.checked = answer,
                             !.code = IF to = "exited" THEN 1 ELSE @]
    /\ UNCHANGED <<envVars, runner, callVars, locVars>>

\* main() is done with the value a call returned and goes to its next call.
MainReturn ==
    /\ \/ cli.stage = "install" /\ op[MainCaller] = "check"
       \/ cli.stage = "run" /\ op[MainCaller] \in {"check", "install"}
    /\ Return(MainCaller)

\* if runner.install_semgrep():
MainInstall ==
    /\ cli.stage = "install"
    /\ InstallCall(MainCaller)

\* install_semgrep() returned: main() goes on, or exits with 1 on False.
MainInstalled ==
    /\ cli.stage = "install"
    /\ op[MainCaller] = "install"
    /\ pc[MainCaller] = "done"
    /\ LET to == AfterInstall(installRet[MainCaller])
       IN cli' = [cli EXCEPT !.stage = to, !.installed = BoolStr(installRet[MainCaller]),
                             !.code = IF to = "exited" THEN 1 ELSE @]
    /\ UNCHANGED <<envVars, runner, callVars, locVars>>

\* result = runner.run(targets=args.targets, rule_file=args.rule_file)
MainRun ==
    /\ cli.stage = "run"
    /\ RunCall(MainCaller, cli.targets, cli.rule_file)

\* The version probe of run() ends.
MainProbeReturn ==
    /\ op[MainCaller] = "run"
    /\ ProbeReturn(MainCaller)

\* run() ended: main() prints the result and exits with the code the
\* result decides; an exception out of run() ends the process with 1.
MainExit ==
    /\ cli.stage = "run"
    /\ op[MainCaller] = "run"
    /\ pc[MainCaller] \in {"done", "raised"}
    /\ IF pc[MainCaller] = "raised"
       THEN /\ cli' = [cli EXCEPT !.stage = "exited", !.code = 1]
            /\ UNCHANGED printed
       ELSE /\ cli' = [cli EXCEPT !.stage = "exited",
                                  !.code = ExitCodeOf(result[MainCaller])]
            /\ printed' = [printed EXCEPT ![MainCaller] =
                              IF cli.json THEN FormatResultsAsJson(result[MainCaller])
                              ELSE HumanLines(result[MainCaller])]
    /\ UNCHANGED <<envVars, runner, pc, op, args, child, log, completed, result,
                   installRet, fault, locVars>>

NextMain ==
    \/ \E i, j \in BOOLEAN, t \in CliTargets : MainParse(i, j, t, PyNone)
    \/ MainConstruct
    \/ MainConstructed
    \/ MainCheck
    \/ CheckReturn(MainCaller)
    \/ MainChecked
    \/ MainReturn
    \/ MainInstall
    \/ \E o \in PipOutcomes, b \in BOOLEAN : PipReturn(MainCaller, o, b)
    \/ MainInstalled
    \/ MainRun
    \/ MainProbeReturn
    \/ \E o \in FewEngineOutcomes : EngineReturn(MainCaller, o)
    \/ MainExit
    \/ \E e \in EngineStates : EngineChange(e)
    \/ RulesDirChange

SpecMain == Init /\ [][NextMain]_vars

(***************************************************************************)
(* Properties.                                                             *)
(***************************************************************************)
\* The calls of run() that are over with a result.
RunDone(c) == op[c] = "run" /\ pc[c] = "done"

\* The calls of install_semgrep() that are over.
InstallDone(c) == op[c] = "install" /\ pc[c] = "done"

\* In this step check_semgrep_installed() answered run() with True.
CheckPassedNow(c) ==
    /\ op'[c] = "run"
    /\ Checks(log[c]) = <<>>
    /\ Checks(log'[c]) = <<"True">>

\* In this step run() called subprocess.run on the engine command.
EngineSpawnedNow(c) ==
    /\ op'[c] = "run"
    /\ Len(Spawns(log[c])) < 2
    /\ Len(Spawns(log'[c])) = 2

\* Whether the config path run() hands to the engine exists.
ConfigExists(rule_file, dirExists) ==
    IF RuleFileGiven(rule_file) THEN RuleFileStat(rule_file, dirExists) = "present"
    ELSE dirExists

\* C1: every result run() returns has success true exactly when its errors
\* list is empty, however many matches it holds.
C1_SuccessIffNoErrors ==
    \A c \in Callers : RunDone(c) => (result[c].success <=> result[c].errors = <<>>)

\* C1, reached: a result with two matches, no errors and success true.
C1_Witness ==
    \E c \in Callers :
        /\ RunDone(c)
        /\ Len(result[c].matches) = 2
        /\ result[c].errors = <<>>
        /\ result[c].success

\* C2: no exception leaves run(), and a call in which the engine did not
\* print a JSON object ends with success false and a non-empty errors list.
C2_NoFaultEscapes ==
    \A c \in Callers :
        op[c] = "run" =>
            /\ pc[c] # "raised"
            /\ (pc[c] = "done"
                    /\ ~(completed[c].kind = "completed" /\ completed[c].stdout.tag = "object")
                => ~result[c].success /\ result[c].errors # <<>>)

\* C3 as stated: a run() call given a target that does not exist spawns no
\* subprocess at all and ends with the target-not-found failure.
C3_NoSubprocessAtAll ==
    \A c \in Callers :
        (op[c] = "run" /\ \E i \in DOMAIN args[c].targets :
                                TargetStat(args[c].targets[i]) = "missing")
        => /\ Spawns(log[c]) = <<>>
           /\ pc[c] # "raised"
           /\ (pc[c] = "done" =>
                 \E i \in DOMAIN args[c].targets :
                    result[c] = FailureResult("Target path not found: " \o args[c].targets[i]))

\* C3, amended: when the installed check has passed, the rule file (if one
\* is named) exists, and the first target that is not present is missing,
\* run() ends with the target-not-found failure naming that target and the
\* version probe is the only subprocess the call spawned.
C3_TargetNotFoundBeforeEngine ==
    [][\A c \in Callers :
        \A i \in DOMAIN args'[c].targets :
            ( /\ CheckPassedNow(c)
              /\ RuleFileGiven(args'[c].rule_file) =>
                    RuleFileStat(args'[c].rule_file, rulesDirExists) = "present"
              /\ TargetStat(args'[c].targets[i]) = "missing"
              /\ \A j \in 1..(i - 1) : TargetStat(args'[c].targets[j]) = "present" )
            => /\ pc'[c] = "done"
               /\ result'[c] = FailureResult("Target path not found: " \o args'[c].targets[i])
               /\ Spawns(log'[c]) = <<VersionCmd>>]_vars

\* C3, reached: the second target is missing, the first exists.
C3_Witness ==
    \E c \in Callers :
        /\ RunDone(c)
        /\ args[c].targets = <<"a.py", "missing.py">>
        /\ result[c] = FailureResult("Target path not found: missing.py")
        /\ Spawns(log[c]) = <<VersionCmd>>

\* C4 as stated: whenever run() spawns the engine, the config path it
\* passes (rule file or rules directory) exists at that moment.
C4_ConfigCheckedOnEveryRun ==
    [][\A c \in Callers :
        EngineSpawnedNow(c) => ConfigExists(args'[c].rule_file, rulesDirExists)]_vars

\* C4, amended: a named rule file is checked on every run() call before the
\* engine is spawned, and a missing one ends the call with the
\* rule-file-not-found failure, which no target-not-found failure equals,
\* the engine not being spawned; the rules directory is checked when the
\* runner is constructed.
C4_RuleFileCheckedBeforeEngine ==
    [][/\ \A c \in Callers :
            RuleFileGiven(args'[c].rule_file) =>
                /\ EngineSpawnedNow(c) =>
                        RuleFileStat(args'[c].rule_file, rulesDirExists) = "present"
                /\ (CheckPassedNow(c)
                        /\ RuleFileStat(args'[c].rule_file, rulesDirExists) = "missing")
                   => /\ pc'[c] = "done"
                      /\ result'[c] = FailureResult(
                            "Rule file not found: rules/" \o args'[c].rule_file)
                      /\ \A t \in TargetPaths :
                            result'[c] # FailureResult("Target path not found: " \o t)
                      /\ Spawns(log'[c]) = <<VersionCmd>>
       /\ (runner # "ready" /\ runner' = "ready") => rulesDirExists]_vars

\* C4, reached: a missing rule file reported, a missing target alongside.
C4_Witness ==
    \E c \in Callers :
        /\ RunDone(c)
        /\ args[c].rule_file = "nope.yaml"
        /\ args[c].targets = <<"missing.py">>
        /\ result[c] = FailureResult("Rule file not found: rules/nope.yaml")
        /\ Spawns(log[c]) = <<VersionCmd>>

\* The messages that describe a failure to parse the engine's output.
ParseFailureMsgs ==
    {"Failed to parse Semgrep output: " \o JSONDecodeErrorText(t) : t \in MalformedTexts}

\* C5 as stated: whenever the engine's stdout is not valid JSON, the result
\* has success false and exactly one error, which describes a parse failure.
C5_NotJsonIsParseFailure ==
    \A c \in Callers :
        (RunDone(c) /\ completed[c].kind = "completed" /\ completed[c].stdout.tag = "text")
        => /\ ~result[c].success
           /\ Len(result[c].errors) = 1
           /\ result[c].errors[1] \in ParseFailureMsgs

\* C5, amended: whenever the engine's stdout is not empty and not valid
\* JSON, the result has success false and exactly one error, which
\* describes a parse failure; no exception leaves run() once the engine
\* has returned.
C5_MalformedIsParseFailure ==
    \A c \in Callers :
        /\ (RunDone(c) /\ completed[c].kind = "completed"
                /\ completed[c].stdout.tag = "text" /\ completed[c].stdout.text # "")
           => /\ ~result[c].success
              /\ Len(result[c].errors) = 1
              /\ result[c].errors[1] \in ParseFailureMsgs
        /\ (op[c] = "run" /\ completed[c].kind # "none") => pc[c] = "done"

\* C5, reached: the engine printed text that is not JSON.
C5_Witness ==
    \E c \in Callers :
        /\ RunDone(c)
        /\ completed[c].stdout = RawText("not json")
        /\ result[c] = FailureResult(
              "Failed to parse Semgrep output: Expecting value: line 1 column 1 (char 0)")

\* C6: a run() call whose first installed check failed has invoked the
\* installer exactly once by the time it returns.
C6_InstallsOnceWhenMissing ==
    \A c \in Callers :
        (RunDone(c) /\ Checks(log[c]) # <<>> /\ Checks(log[c])[1] = "False")
        => Cardinality({i \in DOMAIN Spawns(log[c]) : Spawns(log[c])[i] = PipCmd}) = 1

\* C7: when the installer exited with code 0 and no installed check of the
\* call succeeded, install_semgrep() returns False.
C7_UnverifiedInstallFails ==
    \A c \in Callers :
        ( /\ InstallDone(c)
          /\ completed[c].kind = "completed" /\ completed[c].returncode = 0
          /\ \A i \in DOMAIN Checks(log[c]) : Checks(log[c])[i] # "True" )
        => installRet[c] = FALSE

\* C8: when install_semgrep() returns True after running the installer, it
\* made k >= 1 verification checks, the k-th succeeded, and it slept k - 1
\* times between them.
C8_VerifiedWithDelays ==
    \A c \in Callers :
        (InstallDone(c) /\ installRet[c] /\ PipCmd \in Range(Spawns(log[c])))
        => LET ck == Checks(log[c])
               first == IF ck # <<>> /\ ck[1] = "False" THEN 2 ELSE 1
               k == Len(ck) - (first - 1)
           IN /\ k >= 1
              /\ ck[Len(ck)] = "True"
              /\ Sleeps(log[c]) = k - 1

\* C9: install_semgrep() called while the engine is installed does not
\* invoke the package installer.
C9_NoInstallWhenInstalled ==
    [][\A c \in Callers :
        (pc[c] = "idle" /\ op'[c] = "install" /\ engine = "ok")
        => /\ child'[c].kind # "pip"
           /\ PipCmd \notin Range(Spawns(log'[c]))]_vars

\* C10: at most one package installer is running at any time.
C10_OneInstallerAtATime ==
    Cardinality({c \in Callers : child[c].kind = "pip"}) <= 1

\* The calls of run() in which the engine printed a JSON object.
ParsedRun(c) ==
    RunDone(c) /\ completed[c].kind = "completed" /\ completed[c].stdout.tag = "object"

\* The errors run() reports for an engine that exited without output.
EmptyOutputErrors ==
    {"Unknown error running Semgrep"} \cup {x.stderr : x \in Exits \cup {SilentExit}}

\* C11: when the engine does not finish within the timeout, run() returns
\* success false with exactly one error, which names the timeout and is not
\* an error of an engine that exited without output; nothing was parsed: no
\* matches and no stats.
C11_TimeoutIsReported ==
    \A c \in Callers :
        (op[c] = "run" /\ completed[c].kind = "timeout")
        => /\ pc[c] = "done"
           /\ ~result[c].success
           /\ result[c].errors = <<"Semgrep execution timed out after 60 seconds">>
           /\ result[c].errors[1] \notin EmptyOutputErrors
           /\ result[c].matches = <<>>
           /\ DOMAIN result[c].stats = {}

\* C11, reached: an engine call that timed out and was reported so.
C11_Witness ==
    \E c \in Callers :
        /\ RunDone(c)
        /\ completed[c].kind = "timeout"
        /\ Len(Spawns(log[c])) = 2
        /\ result[c].errors = <<"Semgrep execution timed out after 60 seconds">>

\* C12: for every parsed engine output, stats.files_scanned is the number
\* of distinct path values among the matches, 0 when there are no matches,
\* whatever targets were passed.
C12_FilesScannedIsDistinctPaths ==
    \A c \in Callers :
        ParsedRun(c) =>
            LET m == result[c].matches
                paths == {p \in {"", "a.py", "b.py"} : \E i \in DOMAIN m : m[i].path = p}
            IN /\ \A i \in DOMAIN m : m[i].path \in {"", "a.py", "b.py"}
               /\ result[c].stats.files_scanned = Cardinality(paths)
               /\ (m = <<>> => result[c].stats.files_scanned = 0)

\* C12, reached: two matches in one file, two targets passed.
C12_Witness ==
    \E c \in Callers :
        /\ ParsedRun(c)
        /\ Len(args[c].targets) = 2
        /\ Len(result[c].matches) = 2
        /\ result[c].matches[1].path = result[c].matches[2].path
        /\ result[c].stats.files_scanned = 1

\* In this step a lookup of the engine returned.
LocatedNow == located = NoLocated /\ located' # NoLocated

\* Whether the engine sits, executable, in the location of a strategy.
EngineIn(strategy) ==
    \/ strategy = "system_path" /\ engine \in {"broken", "slow", "ok"}
    \/ strategy # "system_path" /\ strategy \in others

\* C13: a lookup consults the strategies in the order system PATH,
\* interpreter-adjacent bin, site-packages bin/Scripts, user-local bin, stops
\* at the first whose location holds the engine and returns that
\* strategy's candidate; with the engine both on the system PATH and in the
\* interpreter-adjacent bin it returns the system-PATH path and consults
\* nothing else.
C13_LocatorPrecedence ==
    [][LocatedNow =>
        LET order == <<"system_path", "python_bin", "site_packages", "user_local">>
            n == Len(located'.consulted)
        IN /\ n \in 1..4
           /\ \A i \in 1..n : located'.consulted[i] = order[i]
           /\ \A i \in 1..(n - 1) : ~EngineIn(order[i])
           /\ (located'.path # "<None>") <=> EngineIn(order[n])
           /\ (located'.path # "<None>") =>
                located'.path =
                    (CASE order[n] = "system_path" -> "/usr/local/bin/semgrep"
                       [] order[n] = "python_bin" -> "/usr/bin/python3/bin/semgrep"
                       [] order[n] = "site_packages" -> "/path/to/site-packages/Scripts/semgrep"
                       [] OTHER -> "/home/user/.local/bin/semgrep")
           /\ (EngineIn("system_path") /\ EngineIn("python_bin")) =>
                /\ located'.path = "/usr/local/bin/semgrep"
                /\ located'.consulted = <<"system_path">>]_vars

\* C13, reached: the engine is on the system PATH and in the
\* interpreter-adjacent bin, and the lookup answered with the former.
C13_Witness ==
    /\ engine = "ok"
    /\ "python_bin" \in others
    /\ located.kind = "returned"
    /\ located.path = "/usr/local/bin/semgrep"
    /\ located.consulted = <<"system_path">>

\* C18: a lookup made while no candidate location holds the engine returns
\* None, after consulting every strategy, and raises nothing.
C18_AbsentIsNone ==
    [][(LocatedNow /\ \A i \in 1..4 : ~EngineIn(Strategies[i]))
        => /\ located'.kind = "returned"
           /\ located'.path = "<None>"
           /\ Len(located'.consulted) = 4]_vars

\* C18, reached: no engine anywhere, and the lookup answered None.
C18_Witness ==
    /\ engine \in {"absent", "denied"}
    /\ others = {}
    /\ located.kind = "returned"
    /\ located.path = "<None>"

\* C14 as stated: whenever the engine, spawned by run(), printed valid JSON
\* within the timeout, run() returns a result of the parser.
C14_ValidJsonIsParsed ==
    \A c \in Callers :
        (RunDone(c) /\ completed[c].kind = "completed"
            /\ completed[c].stdout.tag \in {"object", "other"})
        => result[c] \in {ParseSemgrepOutput(d) : d \in Docs}

\* C14, amended: whenever the engine, spawned by run(), printed a JSON
\* object within the timeout, run() returns exactly what the parser yields
\* for it, whatever the engine's stderr and exit code; for one finding of
\* severity ERROR and no engine errors that is one match, total_matches 1,
\* error_count 1 and success true.  For valid JSON that is not an object
\* the parser raises and run() returns the unexpected-error failure.
C14_JsonObjectIsParsed ==
    \A c \in Callers :
        (RunDone(c) /\ completed[c].kind = "completed")
        => /\ completed[c].stdout.tag = "object"
                => result[c] = ParseSemgrepOutput(completed[c].stdout.data)
           /\ completed[c].stdout.tag = "other"
                => result[c] = FailureResult(
                      "Unexpected error running Semgrep: 'list' object has no attribute 'get'")
           /\ completed[c].stdout =
                    JsonObject([results |-> <<FullEntry("r1", "a.py", "ERROR")>>,
                                errors |-> <<>>])
                => /\ Len(result[c].matches) = 1
                   /\ result[c].matches[1].severity = "ERROR"
                   /\ result[c].matches[1].start_line = 3
                   /\ result[c].matches[1].end_line = 3
                   /\ result[c].stats.total_matches = 1
                   /\ result[c].stats.error_count = 1
                   /\ result[c].success

\* C14, reached: one target, one ERROR finding, while the engine also wrote
\* to stderr and exited non-zero.
C14_Witness ==
    \E c \in Callers :
        /\ RunDone(c)
        /\ args[c].targets = <<"a.py">>
        /\ completed[c].stdout =
              JsonObject([results |-> <<FullEntry("r1", "a.py", "ERROR")>>, errors |-> <<>>])
        /\ completed[c].returncode = 1
        /\ result[c].stats.error_count = 1
        /\ result[c].success

\* C15: parsing an engine output whose results and errors lists are both
\* empty yields no matches, no errors, success true and the five statistics
\* all 0.
C15_EmptyOutputParsesClean ==
    \A c \in Callers :
        (RunDone(c) /\ completed[c].kind = "completed"
            /\ completed[c].stdout = JsonObject([results |-> <<>>, errors |-> <<>>]))
        => result[c] = [matches |-> <<>>, errors |-> <<>>, success |-> TRUE,
                        stats |-> [total_matches |-> 0, error_count |-> 0,
                                   warning_count |-> 0, info_count |-> 0,
                                   files_scanned |-> 0]]

\* C15, reached: the engine printed empty results and errors lists.
C15_Witness ==
    \E c \in Callers :
        /\ RunDone(c)
        /\ completed[c].stdout = JsonObject([results |-> <<>>, errors |-> <<>>])
        /\ result[c].success
        /\ result[c].stats.total_matches = 0
        /\ result[c].stats.files_scanned = 0

\* The keys of a serialized object, in order.
KeysOf(object) == [i \in 1..Len(object) |-> object[i].key]

\* The value of a key of a serialized object.
ValueOf(object, k) == object[CHOOSE i \in 1..Len(object) : object[i].key = k].value

\* The top-level fields and the match fields of the consumer-facing shape
\* are in place in a serialized result.
ShapeOfResult(object) ==
    /\ KeysOf(object) = <<"success", "matches", "errors", "stats">>
    /\ \A i \in 1..Len(ValueOf(object, "matches")) :
          KeysOf(ValueOf(object, "matches")[i]) =
            <<"rule_id", "path", "start_line", "end_line", "start_column",
              "end_column", "message", "severity", "code_snippet", "fix", "metadata">>

FiveStats == <<"total_matches", "error_count", "warning_count", "info_count", "files_scanned">>

\* C16 as stated: every result run() returned, failure results included,
\* serializes with the four top-level fields, the five statistics in stats
\* and the eleven fields in each match.
C16_EveryResultHasFullShape ==
    \A c \in Callers :
        printed[c] # <<>> =>
            /\ ShapeOfResult(printed[c])
            /\ KeysOf(ValueOf(printed[c], "stats")) = FiveStats

\* C16, amended: every result run() returned serializes with the four
\* top-level fields and the eleven fields in each match; stats carries the
\* five statistics when the result comes from the parser and is empty in
\* every failure result built by run() itself.
C16_ShapeWithEmptyStatsOnFailure ==
    \A c \in Callers :
        printed[c] # <<>> =>
            /\ ShapeOfResult(printed[c])
            /\ Len(ValueOf(printed[c], "matches")) = Len(result[c].matches)
            /\ ValueOf(printed[c], "success") = result[c].success
            /\ ValueOf(printed[c], "errors") = result[c].errors
            /\ KeysOf(ValueOf(printed[c], "stats")) =
                  IF ParsedRun(c) THEN FiveStats ELSE <<>>

\* C16, reached: a serialized result with a match whose entry named no fix.
C16_Witness ==
    \E c \in Callers :
        /\ printed[c] # <<>>
        /\ ParsedRun(c)
        /\ Len(ValueOf(printed[c], "matches")) = 2
        /\ ValueOf(ValueOf(printed[c], "matches")[2], "fix") = "<None>"
        /\ ValueOf(ValueOf(printed[c], "stats"), "total_matches") = 2

\* In this step check_semgrep_installed() gave run() its first answer.
CheckAnsweredNow(c) ==
    /\ op'[c] = "run"
    /\ Checks(log[c]) = <<>>
    /\ Checks(log'[c]) # <<>>

\* The engine on the system PATH as it was when the check began: the one
\* the probe was spawned from, if a probe is running.
EngineAtCheck(c) == IF pc[c] = "probing" THEN child[c].exe ELSE engine

\* C17: the installed check answers True exactly when a lookup yields a
\* path and the version probe run on that path exits with code 0 within
\* its timeout; with no path, or a probe that exits non-zero, times out or
\* cannot be started, it answers False and raises nothing.
C17_CheckIsLookupAndProbe ==
    [][\A c \in Callers :
        CheckAnsweredNow(c) =>
            LET e == EngineAtCheck(c)
                onPath == e \in {"broken", "slow", "ok"}
                found == onPath \/ others # {}
                probeOk == IF onPath THEN e = "ok" ELSE TRUE
            IN /\ Checks(log'[c])[1] \in {"True", "False"}
               /\ Checks(log'[c])[1] = "True" <=> (found /\ probeOk)]_vars

\* C19: when pip exits non-zero or exceeds its timeout, install_semgrep()
\* returns False and raises nothing.
C19_InstallerFailureIsFalse ==
    \A c \in Callers :
        ( /\ op[c] = "install"
          /\ completed[c].kind # "none"
          /\ completed[c].kind = "timeout" \/ completed[c].returncode # 0 )
        => /\ pc[c] = "done"
           /\ installRet[c] = FALSE
           /\ fault[c] = ""

\* C19, reached: pip was killed at its timeout and the call returned False.
C19_Witness ==
    \E c \in Callers :
        /\ InstallDone(c)
        /\ Spawns(log[c]) = <<PipCmd>>
        /\ completed[c].kind = "timeout"
        /\ installRet[c] = FALSE

\* The installation state of the process, read off the calls: in progress
\* while an install_semgrep() call has pip running, complete once such a
\* call has returned True.
InstallationState ==
    CASE \E c \in Callers : op[c] = "install" /\ pc[c] = "installing" -> "in progress"
      [] \E c \in Callers : InstallDone(c) /\ installRet[c] -> "complete"
      [] OTHER -> "not started"

\* C20: the installation state is complete only if an installed check
\* succeeded after the installer was started, and after an installer
\* failure it is neither complete nor in progress.
C20_CompleteOnlyWhenVerified ==
    /\ InstallationState = "complete" =>
          \E c \in Callers :
              /\ InstallDone(c) /\ installRet[c]
              /\ \E i, j \in DOMAIN log[c] :
                    i < j /\ log[c][i] = Spawned(PipCmd) /\ log[c][j] = Checked("True")
    /\ (\A c \in Callers : op[c] = "install" => (InstallDone(c) /\ ~installRet[c]))
          => InstallationState = "not started"

\* What install_semgrep() did after it started pip.
AfterPip(l) ==
    LET at == CHOOSE i \in DOMAIN l : l[i] = Spawned(PipCmd)
    IN SubSeq(l, at + 1, Len(l))

\* C21: after pip reported success, install_semgrep() verifies with at
\* least one and at most a fixed number (five) of installed checks, each a
\* check of its own (lookup and probe), with a sleep before every further
\* attempt that is longer than the one before.
C21_BoundedBackoffVerification ==
    \A c \in Callers :
        ( /\ InstallDone(c)
          /\ completed[c].kind = "completed" /\ completed[c].returncode = 0 )
        => LET after == AfterPip(log[c])
               attempts == {i \in DOMAIN after : after[i].ev = "check"}
               sleeps == {i \in DOMAIN after : after[i].ev = "sleep"}
           IN /\ Cardinality(attempts) \in 1..5
              /\ \A i \in attempts : i = 1 \/ after[i - 1].ev = "sleep"
              /\ \A i \in sleeps : i > 1 /\ after[i - 1].ev = "check"
              /\ \A i, j \in sleeps : i < j => after[i].val[1] < after[j].val[1]

\* C22: a run() call whose first installed check succeeded never invokes
\* the package installer.
C22_NoInstallerAfterPassedCheck ==
    \A c \in Callers :
        (op[c] = "run" /\ Checks(log[c]) # <<>> /\ Checks(log[c])[1] = "True")
        => /\ \A i \in DOMAIN log[c] :
                log[c][i] # [ev |-> "spawn",
                             val |-> <<"python", "-m", "pip", "install", "semgrep">>]
           /\ child[c].kind # "pip"

\* C22, reached: the check passed, the engine ran and its output was
\* parsed, the version probe and the engine being the only subprocesses.
C22_Witness ==
    \E c \in Callers :
        /\ ParsedRun(c)
        /\ Checks(log[c]) = <<"True">>
        /\ Len(Spawns(log[c])) = 2
        /\ Spawns(log[c])[1] = VersionCmd

\* C23: when run() has returned because of the invocation timeout, the
\* engine subprocess it spawned is not running any more.
C23_TimedOutEngineIsKilled ==
    \A c \in Callers :
        (op[c] = "run" /\ pc[c] \in {"done", "raised"}
            /\ (completed[c].kind = "timeout"
                 \/ result[c].errors = <<"Semgrep execution timed out after 60 seconds">>))
        => child[c].kind = "none"

\* C23, reached: run() returned the timeout result and has no child left.
C23_Witness ==
    \E c \in Callers :
        /\ RunDone(c)
        /\ completed[c].kind = "timeout"
        /\ result[c].errors = <<"Semgrep execution timed out after 60 seconds">>
        /\ child[c].kind = "none"

\* The positions of a log at which the engine analysis was spawned.
EngineSpawnsIn(l) ==
    {i \in DOMAIN l : l[i].ev = "spawn" /\ Len(l[i].val) >= 2 /\ l[i].val[2] = "--config"}

\* C24: a run() call spawns the engine analysis at most once, and once the
\* engine has ended, by timeout or with any output, the call has returned.
C24_EngineSpawnedAtMostOnce ==
    \A c \in Callers :
        op[c] = "run" =>
            /\ Cardinality(EngineSpawnsIn(log[c])) <= 1
            /\ completed[c].kind # "none" =>
                    /\ pc[c] = "done"
                    /\ child[c].kind = "none"
                    /\ Cardinality(EngineSpawnsIn(log[c])) = 1

\* C24, reached: the engine printed text that cannot be parsed, and the
\* call returned the failure after that one spawn.
C24_Witness ==
    \E c \in Callers :
        /\ RunDone(c)
        /\ completed[c].stdout = RawText("{")
        /\ Cardinality(EngineSpawnsIn(log[c])) = 1
        /\ ~result[c].success

\* The calls of run() in which the engine ended having printed something.
PrintedRun(c) ==
    /\ RunDone(c)
    /\ completed[c].kind = "completed"
    /\ completed[c].stdout # [tag |-> "text", text |-> "", data |-> EmptyMap]

\* C25: two run() calls whose engines printed the same non-empty stdout
\* return equal results whatever the exit codes and stderr texts; valid
\* JSON with an empty error list gives success true even when the exit
\* code is not zero.
C25_ExitCodeIsIgnored ==
    \A c, d \in Callers :
        /\ (PrintedRun(c) /\ PrintedRun(d) /\ completed[c].stdout = completed[d].stdout)
           => result[c] = result[d]
        /\ (PrintedRun(c) /\ completed[c].stdout.tag = "object"
                /\ Get(completed[c].stdout.data, "errors", <<>>) = <<>>)
           => result[c].success

\* C25, reached: the same output from an engine that exited 0 and from one
\* that exited 1 after writing to stderr, and equal successful results.
C25_Witness ==
    \E c, d \in Callers :
        /\ PrintedRun(c) /\ PrintedRun(d)
        /\ completed[c].stdout = completed[d].stdout
        /\ completed[c].returncode = 0
        /\ completed[d].returncode = 1
        /\ completed[d].stderr # ""
        /\ result[c] = result[d]
        /\ result[d].success

\* C26: the engine is spawned with the path a lookup returned, then
\* --config and the config path, --json, --no-git-ignore, --metrics=off,
\* then one argument per target in the order given.
C26_ArgvStartsWithLocatedPath ==
    \A c \in Callers :
        \A i \in EngineSpawnsIn(log[c]) :
            LET argv == log[c][i].val
                t == args[c].targets
            IN /\ argv[1] \in {CandidatePath(Strategies[k]) : k \in DOMAIN Strategies}
               /\ SubSeq(argv, 2, 6) =
                    <<"--config",
                      IF args[c].rule_file \in {"<None>", ""} THEN "rules"
                      ELSE "rules/" \o args[c].rule_file,
                      "--json", "--no-git-ignore", "--metrics=off">>
               /\ Len(argv) = 6 + Len(t)
               /\ \A k \in DOMAIN t : argv[6 + k] \in {t[k], PathStr(t[k])}

\* C27: when the engine ended with empty stdout, nothing is parsed and
\* run() returns success false with exactly one error: the engine's stderr
\* text when there is one, a fixed unknown-error message otherwise.
C27_EmptyStdoutIsNotParsed ==
    \A c \in Callers :
        ( /\ RunDone(c)
          /\ completed[c].kind = "completed"
          /\ completed[c].stdout = [tag |-> "text", text |-> "", data |-> EmptyMap] )
        => /\ ~result[c].success
           /\ result[c].matches = <<>>
           /\ DOMAIN result[c].stats = {}
           /\ Len(result[c].errors) = 1
           /\ result[c].errors[1] =
                IF completed[c].stderr # "" THEN completed[c].stderr
                ELSE "Unknown error running Semgrep"

\* C27, reached: nothing on stdout, a text on stderr, which is the error.
C27_Witness ==
    \E c \in Callers :
        /\ RunDone(c)
        /\ completed[c].kind = "completed"
        /\ completed[c].stdout = RawText("")
        /\ completed[c].stderr = "semgrep: fatal"
        /\ result[c].errors = <<"semgrep: fatal">>

\* The results list the engine printed in a parsed call.
ResultsOf(c) == Get(completed[c].stdout.data, "results", <<>>)

\* The errors list the engine printed in a parsed call.
ErrorsOf(c) == Get(completed[c].stdout.data, "errors", <<>>)

\* The match expected for each entry the engine may print: the entry's
\* values where it has them, "" / 0 / None / {} where it has not, WARNING
\* for a missing severity.
ExpectedMatch(r) ==
    CASE r = [check_id |-> "r3", path |-> "a.py", extra |-> [message |-> "m"]] ->
            [rule_id |-> "r3", path |-> "a.py", start_line |-> 0, end_line |-> 0,
             start_column |-> 0, end_column |-> 0, message |-> "m",
             severity |-> "WARNING", code_snippet |-> "", fix |-> "<None>",
             metadata |-> EmptyMap]
      [] r = [path |-> "b.py", start |-> [line |-> 7], extra |-> [severity |-> "HINT"]] ->
            [rule_id |-> "", path |-> "b.py", start_line |-> 7, end_line |-> 0,
             start_column |-> 0, end_column |-> 0, message |-> "",
             severity |-> "HINT", code_snippet |-> "", fix |-> "<None>",
             metadata |-> EmptyMap]
      [] OTHER ->
            [rule_id |-> r.check_id, path |-> r.path,
             start_line |-> r.start.line, end_line |-> r.end.line,
             start_column |-> r.start.col, end_column |-> r.end.col,
             message |-> r.extra.message, severity |-> r.extra.severity,
             code_snippet |-> r.extra.lines, fix |-> r.extra.fix,
             metadata |-> r.extra.metadata]

\* C28: the parser yields one match per entry of the results list, in the
\* same order, an entry with fields missing giving a match with those
\* fields defaulted; no entry is dropped and the parse does not fail.
C28_OneMatchPerEntry ==
    \A c \in Callers :
        ParsedRun(c) =>
            /\ Len(result[c].matches) = Len(ResultsOf(c))
            /\ \A i \in DOMAIN ResultsOf(c) :
                    result[c].matches[i] = ExpectedMatch(ResultsOf(c)[i])
            /\ DOMAIN result[c].stats # {}

\* C28, reached: an entry without check_id, end and message after a
\* complete one, both turned into matches.
C28_Witness ==
    \E c \in Callers :
        /\ ParsedRun(c)
        /\ Len(ResultsOf(c)) = 2
        /\ "check_id" \in DOMAIN ResultsOf(c)[1]
        /\ "check_id" \notin DOMAIN ResultsOf(c)[2]
        /\ result[c].matches[1].rule_id = "r1"
        /\ result[c].matches[2].rule_id = ""
        /\ result[c].matches[2].start_line = 7
        /\ result[c].matches[2].end_line = 0

\* C29: the parser yields one error string per entry of the errors list,
\* in the same order, "<kind>: <message>" with kind defaulting to Error and
\* message to Unknown error; with a non-empty errors list success is false
\* while the matches and the stats are those of the results list.
C29_OneErrorPerEntry ==
    \A c \in Callers :
        ParsedRun(c) =>
            /\ Len(result[c].errors) = Len(ErrorsOf(c))
            /\ \A i \in DOMAIN ErrorsOf(c) :
                    result[c].errors[i] =
                        (IF "type" \in DOMAIN ErrorsOf(c)[i]
                         THEN ErrorsOf(c)[i].type ELSE "Error")
                        \o ": " \o
                        (IF "message" \in DOMAIN ErrorsOf(c)[i]
                         THEN ErrorsOf(c)[i].message ELSE "Unknown error")
            /\ ErrorsOf(c) # <<>> =>
                    /\ ~result[c].success
                    /\ Len(result[c].matches) = Len(ResultsOf(c))
                    /\ result[c].stats.total_matches = Len(ResultsOf(c))
                    /\ result[c].stats.error_count =
                          Cardinality({i \in DOMAIN ResultsOf(c) :
                              ExpectedMatch(ResultsOf(c)[i]).severity = "ERROR"})

\* C29, reached: two engine errors, the second without a type, next to two
\* findings that are still reported and counted.
C29_Witness ==
    \E c \in Callers :
        /\ ParsedRun(c)
        /\ result[c].errors = <<"ParseError: bad rule", "Error: no type">>
        /\ ~result[c].success
        /\ Len(result[c].matches) = 2
        /\ result[c].stats.total_matches = 2

\* Whether an entry of the results list names a severity.
HasSeverity(r) == "extra" \in DOMAIN r /\ "severity" \in DOMAIN r.extra

\* C30: a result entry with no severity becomes a match of severity
\* WARNING and is counted in warning_count, not in error_count or
\* info_count.
C30_MissingSeverityIsWarning ==
    \A c \in Callers :
        ParsedRun(c) =>
            LET rs == ResultsOf(c)
                plain == {i \in DOMAIN rs : ~HasSeverity(rs[i])}
                named(sev) == {i \in DOMAIN rs : HasSeverity(rs[i]) /\ rs[i].extra.severity = sev}
            IN /\ \A i \in plain : result[c].matches[i].severity = "WARNING"
               /\ result[c].stats.warning_count = Cardinality(plain \cup named("WARNING"))
               /\ result[c].stats.error_count = Cardinality(named("ERROR"))
               /\ result[c].stats.info_count = Cardinality(named("INFO"))

\* C30, reached: one entry without severity next to an ERROR one.
C30_Witness ==
    \E c \in Callers :
        /\ ParsedRun(c)
        /\ Len(ResultsOf(c)) = 2
        /\ HasSeverity(ResultsOf(c)[1])
        /\ ~HasSeverity(ResultsOf(c)[2])
        /\ result[c].matches[2].severity = "WARNING"
        /\ result[c].stats.warning_count = 1
        /\ result[c].stats.error_count = 1
        /\ result[c].stats.info_count = 0

\* C31: the result of a run() call is decided by the call's own arguments,
\* the answers the environment gave it and its own engine output: two
\* calls that agree on those (the engine, where it was started, having
\* answered) return equal results, the matches, errors and
\* stats of a result are those of the call's own engine output (none
\* where nothing was parsed), and the runner stays as constructed.
C31_NothingCarriedOver ==
    /\ \A c, d \in Callers :
            (RunDone(c) /\ RunDone(d) /\ args[c] = args[d] /\ log[c] = log[d]
                /\ completed[c] = completed[d]
                /\ (completed[c].kind # "none" \/ EngineSpawnsIn(log[c]) = {}))
            => result[c] = result[d]
    /\ \A c \in Callers :
            /\ ParsedRun(c) =>
                    /\ Len(result[c].matches) = Len(ResultsOf(c))
                    /\ Len(result[c].errors) = Len(ErrorsOf(c))
                    /\ result[c].stats.total_matches = Len(ResultsOf(c))
            /\ (RunDone(c) /\ ~ParsedRun(c)) =>
                    /\ result[c].matches = <<>>
                    /\ Len(result[c].errors) = 1
                    /\ DOMAIN result[c].stats = {}
            /\ op[c] = "run" => runner = "ready"

\* C31, reached: one call holds a result with a match and an error while
\* another call on the same runner returned a clean, empty result.
C31_Witness ==
    \E c, d \in Callers :
        /\ ParsedRun(c) /\ ParsedRun(d)
        /\ Len(result[c].matches) = 1
        /\ Len(result[c].errors) = 1
        /\ result[d].matches = <<>>
        /\ result[d].errors = <<>>
        /\ result[d].stats.total_matches = 0
        /\ result[d].success

\* What check_semgrep_installed() does for an engine e on the system PATH.
CheckOutcome(e) ==
    CASE e = "ok" -> "True"
      [] e = "denied" -> "raise"
      [] OTHER -> "False"

\* C32: the installed check keeps no earlier answer and changes nothing:
\* every check is answered from the engine on the PATH as it is when the
\* check is made, whatever earlier checks answered, and the step that
\* answers it leaves the environment and the runner as they were.
C32_CheckIsNotCached ==
    [][\A c \in Callers :
        CheckAnsweredNow(c) =>
            /\ Checks(log'[c])[1] = CheckOutcome(EngineAtCheck(c))
            /\ UNCHANGED <<envVars, runner, others>>]_vars

\* C32, reached: on one runner a call was told the engine is missing and
\* another call, made when the engine was there, was told it is installed.
C32_Witness ==
    \E c, d \in Callers :
        /\ op[c] = "run" /\ op[d] = "run"
        /\ Checks(log[c]) = <<"False">>
        /\ Checks(log[d]) = <<"True">>
        /\ engine = "ok"

\* Every call of run() comes to an end, with a result or with an exception.
EveryRunEnds ==
    \A c \in Callers :
        (op[c] = "run") ~> (op[c] = "run" /\ pc[c] \in {"done", "raised"})

\* C33: every call of run() eventually returns a result, whatever the
\* other caller does meanwhile.
C33_EveryRunReturns ==
    \A c \in Callers : (op[c] = "run") ~> RunDone(c)

\* The targets that exist, and the first position of a list at which a
\* target does not (0 when all do).
ExistingTargets == {"a.py", "./b.py"}
FirstNotExisting(t) ==
    IF \A i \in DOMAIN t : t[i] \in ExistingTargets THEN 0
    ELSE CHOOSE i \in DOMAIN t :
            /\ t[i] \notin ExistingTargets
            /\ \A j \in 1..(i - 1) : t[j] \in ExistingTargets

C35_FailureHasOneErrorAndNoStats ==
    \A c \in Callers :
        RunDone(c) =>
            /\ ~ParsedRun(c) =>
                    /\ result[c].matches = <<>>
                    /\ Len(result[c].errors) = 1
                    /\ DOMAIN result[c].stats = {}
                    /\ ~result[c].success
            /\ ParsedRun(c) => DOMAIN result[c].stats = Range(FiveStats)
            /\ DOMAIN result[c].stats \in {{}, Range(FiveStats)}

\* C35, reached: the engine printed JSON that is not an object, and run()
\* returned the failure result of an unexpected exception.
C35_Witness ==
    \E c \in Callers :
        /\ RunDone(c)
        /\ completed[c].kind = "completed"
        /\ completed[c].stdout = JsonOther
        /\ result[c] = FailureResult(UnexpectedMsg("'list' object has no attribute 'get'"))

\* C36: in every parsed result the three severity counters add up to at
\* most total_matches, and to exactly total_matches when and only when the
\* severity of every match is ERROR, WARNING or INFO; a match of any other
\* severity is among the matches, counts in total_matches and its path in
\* files_scanned, and counts in none of the three.
C36_SeverityCountersWithinTotal ==
    \A c \in Callers :
        ParsedRun(c) =>
            LET m == result[c].matches
                st == result[c].stats
                sum == st.error_count + st.warning_count + st.info_count
                others3 == {i \in DOMAIN m : m[i].severity \notin {"ERROR", "WARNING", "INFO"}}
            IN /\ sum <= st.total_matches
               /\ sum = st.total_matches <=> others3 = {}
               /\ st.total_matches = Len(m)
               /\ st.total_matches - sum = Cardinality(others3)
               /\ \A i \in DOMAIN m :
                      m[i].severity = Get(Get(ResultsOf(c)[i], "extra", EmptyMap),
                                           "severity", "WARNING")
               /\ others3 # {} => st.files_scanned >= 1
               /\ st.files_scanned = Cardinality({m[i].path : i \in DOMAIN m})

\* C36, reached: a parsed result with one ERROR match and one match of
\* severity HINT in another file: two matches, two files, one counted.
C36_Witness ==
    \E c \in Callers :
        /\ ParsedRun(c)
        /\ Len(result[c].matches) = 2
        /\ result[c].matches[1].severity = "ERROR"
        /\ result[c].matches[2].severity = "HINT"
        /\ result[c].stats.total_matches = 2
        /\ result[c].stats.files_scanned = 2
        /\ result[c].stats.error_count = 1
        /\ result[c].stats.warning_count = 0
        /\ result[c].stats.info_count = 0

====
